---- MODULE Spec2Model ----
(***************************************************************************)
(* A model of vanity.py: a coordinator process (main) that spawns one      *)
(* progress monitor and cpu_count() workers, collects max_matches results  *)
(* from the result queue, terminates the workers, stops the monitor and    *)
(* merges the results into a JSON file named after the vanity text.        *)
(*                                                                         *)
(* Strings are sequences of one-character strings, so that the regular     *)
(* expression the program builds from the vanity text is interpreted       *)
(* character by character.                                                 *)
(***************************************************************************)
EXTENDS Integers, Sequences, FiniteSets, TLC

\* ---------------------------------------------------------------- bounds
MaxCores == 2        \* largest cpu_count() explored
MaxTarget == 2       \* largest --max-matches explored
BatchSize == 2       \* batch_size handed to generate_vanity_address
MaxBatches == 1      \* cap on the progress batches sent in one run
NumKeys == 2         \* number of distinct keypairs Keypair() can draw
MaxRuns == 2         \* successive invocations of the script
MaxTextLen == 2      \* longest vanity text given to the matcher
MaxAddrLen == 3      \* longest address given to the matcher
CounterSpan == 20    \* batches from either end of its range the counter starts at
MaxWaiting == 3      \* most batches waiting on the progress queue at the start
IntMax == 2147483647 \* largest value of multiprocessing.Value("i"), a C int
DefaultBatchSize == 10000   \* line 13: the batch size main's workers run with

\* ---------------------------------------------------------------- strings
SeqsUpTo(S, n) == UNION {[1..m -> S] : m \in 0..n}

IsPrefix(s, t) == Len(s) <= Len(t) /\ SubSeq(t, 1, Len(s)) = s

IsSuffix(s, t) == Len(s) <= Len(t) /\ SubSeq(t, Len(t) - Len(s) + 1, Len(t)) = s

\* characters an address is made of (a slice of the base58 alphabet)
AddrChars == {"a", "b", "A"}

\* characters a vanity text may hold: address characters and the regular
\* expression metacharacters alternation and wildcard
TextChars == AddrChars \cup {"|", "."}

Lower(c) == IF c = "A" THEN "a" ELSE c

Fold(s) == [i \in 1..Len(s) |-> Lower(s[i])]

\* ---------------------------------------------------------------- matcher
\* lines 66-69: the regular expression built from the vanity text
Pattern(text, matchEnd) ==
    IF matchEnd THEN text \o <<"$">> ELSE <<"^">> \o text

\* re.compile: the top-level alternatives of a pattern, split at "|"
Alternatives(p) ==
    { SubSeq(p, i, j) : <<i, j>> \in
        { ij \in (1..(Len(p) + 1)) \X (0..Len(p)) :
            /\ ij[2] >= ij[1] - 1
            /\ (ij[1] = 1 \/ p[ij[1] - 1] = "|")
            /\ (ij[2] = Len(p) \/ p[ij[2] + 1] = "|")
            /\ \A k \in ij[1]..ij[2] : p[k] # "|" } }

\* one regular-expression item against one character, under re.IGNORECASE or not
CharMatches(item, c, ignoreCase) ==
    \/ item = "."
    \/ IF ignoreCase THEN Lower(item) = Lower(c) ELSE item = c

\* the backtracking-free match of one alternative at offset pos of s
\* (no newline can occur in s, so "$" holds at the very end only)
RECURSIVE MatchHere(_, _, _, _)
MatchHere(alt, s, pos, ignoreCase) ==
    IF alt = <<>> THEN TRUE
    ELSE IF Head(alt) = "^" THEN pos = 0 /\ MatchHere(Tail(alt), s, pos, ignoreCase)
    ELSE IF Head(alt) = "$" THEN pos = Len(s) /\ MatchHere(Tail(alt), s, pos, ignoreCase)
    ELSE /\ pos < Len(s)
         /\ CharMatches(Head(alt), s[pos + 1], ignoreCase)
         /\ MatchHere(Tail(alt), s, pos + 1, ignoreCase)

\* pattern_compiled.search(pubkey): some alternative matches at some offset
search(p, s, ignoreCase) ==
    \E alt \in Alternatives(p) : \E pos \in 0..Len(s) : MatchHere(alt, s, pos, ignoreCase)

\* the matcher a session uses: compile the pattern, search the address
Matcher(text, matchEnd, ignoreCase, s) == search(Pattern(text, matchEnd), s, ignoreCase)

\* ---------------------------------------------------------------- keypairs
\* Keypair(): the keypairs the generator can draw
Keypairs == 0..(NumKeys - 1)

Alpha == <<"a", "b", "A">>

\* str(keypair.pubkey()): the address of a keypair
Pubkey(k) == <<Alpha[(k % 3) + 1], Alpha[((k + 1) % 3) + 1]>>

\* lines 26-29: the record a worker reports; the secret key is the encoding
\* of the keypair, which the keypair alone determines
Record(k) == [public_key |-> Pubkey(k), secret_key |-> k]

\* ---------------------------------------------------------------- files
\* the vanity texts given on the command line in the session model
VanityTexts == {<<"a">>}

\* line 58
Pluralized(m) == m > 1

\* line 59: the file name is the vanity text and the plural suffix
Filename(text, m) == <<text, Pluralized(m)>>

Filenames == VanityTexts \X BOOLEAN

\* a vanity text can also be empty, a regular expression that is not its own
\* literal (a dot), or no regular expression at all (an opening parenthesis
\* that is never closed)
CommandLineTexts == VanityTexts \cup {<<>>, <<".">>, <<"(">>}

AllFilenames == CommandLineTexts \X BOOLEAN

\* what a file can hold: nothing (no such file), text that is not JSON, a
\* JSON value that is not an array, or a JSON array of records
Missing == [kind |-> "missing", data |-> <<>>]

Garbage == [kind |-> "garbage", data |-> <<>>]

JsonOther == [kind |-> "json_other", data |-> <<>>]

Array(d) == [kind |-> "json_array", data |-> d]

InitialContents == {Missing, Garbage, JsonOther, Array(<<>>), Array(<<Record(0)>>)}

\* the file is not read: every run starts from an empty list
LoadExisting_fresh(content) == [ok |-> TRUE, data |-> <<>>]

\* lines 117-124: what the existing file loads as; ok is FALSE when the
\* value loaded is no list, so that line 127 raises
LoadExisting(content) ==
    IF content.kind = "json_array" THEN [ok |-> TRUE, data |-> content.data]
    ELSE IF content.kind = "json_other" THEN [ok |-> FALSE, data |-> <<>>]
    ELSE [ok |-> TRUE, data |-> <<>>]

\* the new results replace what was loaded
Extend_replace(existing, new) == new

\* line 127
Extend(existing, new) == existing \o new

\* ---------------------------------------------------------------- counters
\* line 45 on the C int of line 80: adding b >= 0 wraps past IntMax to the
\* negative end of the range (a + b - 2^32, computed without leaving the range)
Add32(a, b) ==
    IF a > 0 /\ b > IntMax - a
    THEN (a - IntMax - 1) + (b - IntMax - 1)
    ELSE a + b

\* the loop test off by one
LoopCond_le(n, m) == n <= m

\* line 99
LoopCond(n, m) == n < m

\* line 105
BreakCond(n, m) == n >= m

\* a handler that returns instead of exiting
signal_handler_returns(p) == p

\* lines 139-144: where the coordinator is after the handler ran
signal_handler(p) == "sysexit0"

\* ---------------------------------------------------------------- state
VARIABLES
    vanity_text, max_matches, ignore_case, match_end,  \* the arguments of main
    num_cores,          \* cpu_count()
    pc,                 \* where the coordinator is in main
    found, results,     \* lines 97-98
    existing_data,      \* lines 120-127
    exit_code,          \* exit status of the coordinator, -1 while it runs
    queue,              \* result queue
    progress_queue,     \* progress queue
    total_attempts,     \* shared counter
    consumed,           \* sum of the batch counts the monitor has taken
    total0,             \* what the counter held when the observation starts
    batch_size,         \* the batch_size the workers run with
    wpc, attempts,      \* per worker: its state and its batch counter
    apc,                \* state of the progress monitor
    fs,                 \* the files of the working directory
    sent,               \* progress batches put in this run
    run,                \* invocations so far
    fs0,                \* the files when this run started
    sigPhase,           \* the phase in which an interrupt was delivered
    writeFailed,        \* opening or dumping the result file raised
    persisted,          \* line 131 completed
    prev,               \* the previous run: its text, its plural, whether it completed
    subject, search_result   \* the matcher on its own: address and outcome

vars == <<vanity_text, max_matches, ignore_case, match_end, num_cores, pc, found,
          results, existing_data, exit_code, queue, progress_queue,
          total_attempts, consumed, total0, batch_size, wpc, attempts, apc, fs,
          sent, run, fs0, sigPhase, writeFailed, persisted, prev, subject,
          search_result>>

inputVars == <<vanity_text, max_matches, ignore_case, match_end, num_cores>>

histVars == <<run, fs0, prev, total0, batch_size>>

matcherVars == <<subject, search_result>>

Batch(n) == [kind |-> "batch", n |-> n]

Done == [kind |-> "DONE", n |-> 0]

\* the states of the session state machine
Phase(p) ==
    CASE p \in {"idle", "start"} -> "INIT"
      [] p \in {"loop", "get"} -> "RUNNING"
      [] p \in {"terminate", "put_done", "join"} -> "DRAINING"
      [] p \in {"persist_read", "persist_open", "persist_dump"} -> "PERSISTING"
      [] p \in {"print_total", "returned"} -> "DONE"
      [] OTHER -> "EXIT"

\* the coordinator is inside main with the handlers of lines 62-63 installed
InMain == {"loop", "get", "terminate", "put_done", "join", "persist_read",
           "persist_open", "persist_dump", "print_total"}

ChildrenAlive == apc = "run" \/ \E w \in DOMAIN wpc : wpc[w] = "run"

NoPrev == [completed |-> FALSE, text |-> <<>>, plural |-> FALSE]

Init ==
    /\ vanity_text = <<>> /\ max_matches = 0 /\ ignore_case = FALSE
    /\ match_end = FALSE /\ num_cores = 1
    /\ pc = "idle" /\ found = 0 /\ results = <<>> /\ existing_data = <<>>
    /\ exit_code = -1 /\ queue = <<>> /\ progress_queue = <<>>
    /\ total_attempts = 0 /\ wpc = <<>> /\ attempts = <<>> /\ apc = "none"
    /\ consumed = 0 /\ total0 = 0 /\ batch_size = BatchSize
    /\ \E f \in Filenames : \E c \in InitialContents :
          fs = [g \in AllFilenames |-> IF g = f THEN c ELSE Missing]
    /\ sent = 0 /\ run = 0 /\ fs0 = fs
    /\ sigPhase = "none" /\ writeFailed = FALSE
    /\ persisted = FALSE /\ prev = NoPrev
    /\ subject = <<>> /\ search_result = "none"

\* ---------------------------------------------------------------- actions
\* lines 147-185: the script is started with its arguments, the vanity text
\* one of texts; before is what is remembered of the run before it
StartWith(before, texts) ==
    /\ vanity_text' \in texts
    /\ max_matches' \in 0..MaxTarget
    /\ ignore_case' \in BOOLEAN
    /\ match_end' \in BOOLEAN
    /\ num_cores' \in 1..MaxCores
    /\ pc' = "start" /\ found' = 0 /\ results' = <<>> /\ existing_data' = <<>>
    /\ exit_code' = -1 /\ queue' = <<>> /\ progress_queue' = <<>>
    /\ total_attempts' = 0 /\ wpc' = <<>> /\ attempts' = <<>> /\ apc' = "none"
    /\ consumed' = 0 /\ total0' = 0 /\ batch_size' = BatchSize
    /\ sent' = 0 /\ run' = run + 1 /\ fs0' = fs
    /\ sigPhase' = "none" /\ writeFailed' = FALSE
    /\ persisted' = FALSE
    /\ prev' = before
    /\ UNCHANGED <<fs, subject, search_result>>

Start(before) == StartWith(before, VanityTexts)

\* the first invocation
invoke ==
    /\ pc = "idle"
    /\ Start(NoPrev)

\* the script is started again after the process of the run before has ended
reinvoke ==
    /\ pc = "exited"
    /\ run < MaxRuns
    /\ Start([completed |-> persisted /\ exit_code = 0,
              text |-> vanity_text,
              plural |-> Pluralized(max_matches)])

\* the first invocation with any vanity text
invoke_any ==
    /\ pc = "idle"
    /\ StartWith(NoPrev, CommandLineTexts)

\* line 72: re.compile raises re.error on an unterminated group
CompileFails(p) == \E i \in 1..Len(p) : p[i] = "("

\* lines 58-95: handlers installed, pattern compiled, monitor and workers
\* started; an error of re.compile is caught nowhere and ends the process
\* with status 1 before anything is started
main_spawn ==
    /\ pc = "start"
    /\ IF CompileFails(Pattern(vanity_text, match_end))
       THEN /\ pc' = "sysexit1"
            /\ UNCHANGED <<apc, wpc, attempts>>
       ELSE /\ pc' = "loop"
            /\ apc' = "run"
            /\ wpc' = [w \in 1..num_cores |-> "run"]
            /\ attempts' = [w \in 1..num_cores |-> 0]
    /\ UNCHANGED <<inputVars, found, results, existing_data, exit_code, queue,
                   progress_queue, total_attempts, consumed, fs, sent, histVars, sigPhase, writeFailed, persisted, matcherVars>>

\* an iteration without the return of line 31: the worker goes on after a match
Attempt_no_return(w, k) ==
    /\ wpc[w] = "run"
    /\ IF Matcher(vanity_text, match_end, ignore_case, Pubkey(k))
       THEN /\ queue' = Append(queue, Record(k))
            /\ Len(queue) + Len(results) < MaxTarget + MaxCores
            /\ attempts' = [attempts EXCEPT ![w] = 0]
            /\ UNCHANGED <<progress_queue, sent, wpc>>
       ELSE IF attempts[w] + 1 = batch_size
       THEN /\ sent < MaxBatches
            /\ progress_queue' = Append(progress_queue, Batch(attempts[w] + 1))
            /\ sent' = sent + 1
            /\ attempts' = [attempts EXCEPT ![w] = 0]
            /\ UNCHANGED <<queue, wpc>>
       ELSE /\ attempts' = [attempts EXCEPT ![w] = attempts[w] + 1]
            /\ UNCHANGED <<queue, wpc, progress_queue, sent>>
    /\ UNCHANGED <<inputVars, pc, found, results, existing_data, exit_code,
                   total_attempts, consumed, apc, fs, histVars, sigPhase,
                   writeFailed, persisted, matcherVars>>

\* lines 18-33: one iteration of the worker's inner loop with keypair k; the
\* report of line 33 is made with the last attempt of a batch
Attempt(w, k) ==
    /\ wpc[w] = "run"
    /\ IF Matcher(vanity_text, match_end, ignore_case, Pubkey(k))
       THEN /\ queue' = Append(queue, Record(k))
            /\ wpc' = [wpc EXCEPT ![w] = "returned"]
            /\ attempts' = [attempts EXCEPT ![w] = 0]
            /\ UNCHANGED <<progress_queue, sent>>
       ELSE IF attempts[w] + 1 = batch_size
       THEN /\ sent < MaxBatches
            /\ progress_queue' = Append(progress_queue, Batch(attempts[w] + 1))
            /\ sent' = sent + 1
            /\ attempts' = [attempts EXCEPT ![w] = 0]
            /\ UNCHANGED <<queue, wpc>>
       ELSE /\ attempts' = [attempts EXCEPT ![w] = attempts[w] + 1]
            /\ UNCHANGED <<queue, wpc, progress_queue, sent>>
    /\ UNCHANGED <<inputVars, pc, found, results, existing_data, exit_code,
                   total_attempts, consumed, apc, fs, histVars, sigPhase,
                   writeFailed, persisted, matcherVars>>

generate_vanity_address(w) == \E k \in Keypairs : Attempt(w, k)

\* the iteration in which worker w draws a keypair whose address matches
WorkerFinds(w) ==
    \E k \in Keypairs :
        /\ Matcher(vanity_text, match_end, ignore_case, Pubkey(k))
        /\ Attempt(w, k)

\* the time elapsed since the monitor started, as time.time() reports it:
\* none (within the clock's resolution) or some
ElapsedTimes == {"zero", "positive"}

\* lines 41-51: the monitor takes one item off the progress queue
progress_monitor ==
    /\ apc = "run"
    /\ progress_queue # <<>>
    /\ progress_queue' = Tail(progress_queue)
    /\ IF Head(progress_queue).kind = "DONE"
       THEN /\ apc' = "exited"
            /\ UNCHANGED <<total_attempts, consumed>>
       ELSE /\ total_attempts' = Add32(total_attempts, Head(progress_queue).n)
            /\ consumed' = consumed + Head(progress_queue).n
            /\ \E elapsed \in ElapsedTimes :
                  apc' = IF elapsed = "zero" THEN "crashed" ELSE "run"
    /\ UNCHANGED <<inputVars, pc, found, results, existing_data, exit_code, queue,
                   wpc, attempts, fs, sent, histVars, sigPhase,
                   writeFailed, persisted, matcherVars>>

\* line 99: the loop test
main_loop ==
    /\ pc = "loop"
    /\ pc' = IF LoopCond(found, max_matches) THEN "get" ELSE "terminate"
    /\ UNCHANGED <<inputVars, found, results, existing_data, exit_code, queue,
                   progress_queue, total_attempts, consumed, wpc, attempts, apc, fs, sent,
                   histVars, sigPhase, writeFailed, persisted,
                   matcherVars>>

\* the receive without the count of line 102
main_get_uncounted ==
    /\ pc = "get"
    /\ queue # <<>>
    /\ results' = Append(results, Head(queue))
    /\ queue' = Tail(queue)
    /\ pc' = IF BreakCond(found, max_matches) THEN "terminate" ELSE "loop"
    /\ UNCHANGED <<inputVars, found, existing_data, exit_code, progress_queue,
                   total_attempts, consumed, wpc, attempts, apc, fs, sent, histVars,
                   sigPhase, writeFailed, persisted, matcherVars>>

\* lines 100-107: the blocking receive, the append and the break
main_get ==
    /\ pc = "get"
    /\ queue # <<>>
    /\ results' = Append(results, Head(queue))
    /\ queue' = Tail(queue)
    /\ found' = found + 1
    /\ pc' = IF BreakCond(found + 1, max_matches) THEN "terminate" ELSE "loop"
    /\ UNCHANGED <<inputVars, existing_data, exit_code, progress_queue,
                   total_attempts, consumed, wpc, attempts, apc, fs, sent, histVars,
                   sigPhase, writeFailed, persisted, matcherVars>>

\* lines 110-111: every worker is sent SIGTERM
main_terminate ==
    /\ pc = "terminate"
    /\ wpc' = [w \in DOMAIN wpc |-> IF wpc[w] = "run" THEN "terminated" ELSE wpc[w]]
    /\ pc' = "put_done"
    /\ UNCHANGED <<inputVars, found, results, existing_data, exit_code, queue,
                   progress_queue, total_attempts, consumed, attempts, apc, fs, sent,
                   histVars, sigPhase, writeFailed, persisted,
                   matcherVars>>

\* line 112
main_put_done ==
    /\ pc = "put_done"
    /\ progress_queue' = Append(progress_queue, Done)
    /\ pc' = "join"
    /\ UNCHANGED <<inputVars, found, results, existing_data, exit_code, queue,
                   total_attempts, consumed, wpc, attempts, apc, fs, sent, histVars,
                   sigPhase, writeFailed, persisted, matcherVars>>

\* a join that does not wait for the monitor
main_join_nowait ==
    /\ pc = "join"
    /\ pc' = "persist_read"
    /\ UNCHANGED <<inputVars, found, results, existing_data, exit_code, queue,
                   progress_queue, total_attempts, consumed, wpc, attempts, apc, fs, sent,
                   histVars, sigPhase, writeFailed, persisted,
                   matcherVars>>

\* line 113: returns once the monitor process has ended
main_join ==
    /\ pc = "join"
    /\ apc # "run"
    /\ pc' = "persist_read"
    /\ UNCHANGED <<inputVars, found, results, existing_data, exit_code, queue,
                   progress_queue, total_attempts, consumed, wpc, attempts, apc, fs, sent,
                   histVars, sigPhase, writeFailed, persisted,
                   matcherVars>>

\* lines 117-127 (and 132-134 when extend raises): load the file, extend
main_persist_read ==
    /\ pc = "persist_read"
    /\ LET loaded == LoadExisting(fs[Filename(vanity_text, max_matches)])
       IN  IF loaded.ok
           THEN /\ existing_data' = Extend(loaded.data, results)
                /\ pc' = "persist_open"
           ELSE /\ existing_data' = existing_data
                /\ pc' = "sysexit1"
    /\ UNCHANGED <<inputVars, found, results, exit_code, queue, progress_queue,
                   total_attempts, consumed, wpc, attempts, apc, fs, sent, histVars,
                   sigPhase, writeFailed, persisted, matcherVars>>

\* line 130 (and 132-134): opening for writing empties the file, or raises
main_persist_open ==
    /\ pc = "persist_open"
    /\ \E ok \in BOOLEAN :
          IF ok
          THEN /\ fs' = [fs EXCEPT ![Filename(vanity_text, max_matches)] = Garbage]
               /\ pc' = "persist_dump"
               /\ UNCHANGED writeFailed
          ELSE /\ writeFailed' = TRUE
               /\ pc' = "sysexit1"
               /\ UNCHANGED fs
    /\ UNCHANGED <<inputVars, found, results, existing_data, exit_code, queue,
                   progress_queue, total_attempts, consumed, wpc, attempts, apc, sent,
                   histVars, sigPhase, persisted, matcherVars>>

\* line 131 (and 132-134): the array is written out, or the write raises and
\* leaves a truncated file
main_persist_dump ==
    /\ pc = "persist_dump"
    /\ \E ok \in BOOLEAN :
          IF ok
          THEN /\ fs' = [fs EXCEPT ![Filename(vanity_text, max_matches)] =
                                      Array(existing_data)]
               /\ persisted' = TRUE
               /\ pc' = "print_total"
               /\ UNCHANGED writeFailed
          ELSE /\ writeFailed' = TRUE
               /\ pc' = "sysexit1"
               /\ UNCHANGED <<fs, persisted>>
    /\ UNCHANGED <<inputVars, found, results, existing_data, exit_code, queue,
                   progress_queue, total_attempts, consumed, wpc, attempts, apc, sent,
                   histVars, sigPhase, matcherVars>>

\* line 136: main returns
main_print_total ==
    /\ pc = "print_total"
    /\ pc' = "returned"
    /\ UNCHANGED <<inputVars, found, results, existing_data, exit_code, queue,
                   progress_queue, total_attempts, consumed, wpc, attempts, apc, fs, sent,
                   histVars, sigPhase, writeFailed, persisted,
                   matcherVars>>

\* SIGINT or SIGTERM reaches the coordinator while it is in main (handlers of
\* lines 62-63); toGroup: the signal is sent to the whole process group, as
\* Ctrl-C does, and the children, which inherited the handler, exit too
interrupt(toGroup) ==
    /\ pc \in InMain
    /\ pc' = signal_handler(pc)
    /\ sigPhase' = Phase(pc)
    /\ IF toGroup
       THEN /\ wpc' = [w \in DOMAIN wpc |->
                          IF wpc[w] = "run" THEN "terminated" ELSE wpc[w]]
            /\ apc' = IF apc = "run" THEN "terminated" ELSE apc
       ELSE UNCHANGED <<wpc, apc>>
    /\ UNCHANGED <<inputVars, found, results, existing_data, exit_code, queue,
                   progress_queue, total_attempts, consumed, attempts, fs, sent, histVars,
                   writeFailed, persisted, matcherVars>>

\* the interpreter shuts down: the processes of lines 83 and 90 are not
\* daemons, so multiprocessing joins every child before the process ends
process_exit ==
    /\ pc \in {"returned", "sysexit0", "sysexit1"}
    /\ ~ChildrenAlive
    /\ exit_code' = IF pc = "sysexit1" THEN 1 ELSE 0
    /\ pc' = "exited"
    /\ UNCHANGED <<inputVars, found, results, existing_data, queue,
                   progress_queue, total_attempts, consumed, wpc, attempts, apc, fs, sent,
                   histVars, sigPhase, writeFailed, persisted,
                   matcherVars>>

Coordinator ==
    \/ main_spawn
    \/ main_loop
    \/ main_get
    \/ main_terminate
    \/ main_put_done
    \/ main_join
    \/ main_persist_read
    \/ main_persist_open
    \/ main_persist_dump
    \/ main_print_total
    \/ process_exit

Next ==
    \/ invoke
    \/ Coordinator
    \/ \E w \in DOMAIN wpc : generate_vanity_address(w)
    \/ progress_monitor
    \/ \E toGroup \in BOOLEAN : interrupt(toGroup)

Spec == Init /\ [][Next]_vars

\* the scheduler runs every process; every running worker eventually draws a
\* matching keypair when there is one
Fairness ==
    /\ WF_vars(Coordinator)
    /\ WF_vars(progress_monitor)
    /\ \A w \in 1..MaxCores : WF_vars(w \in DOMAIN wpc /\ WorkerFinds(w))

FairSpec == Init /\ [][Next]_vars /\ Fairness

\* a single run with any vanity text, the empty and the malformed included
ConfigNext ==
    \/ invoke_any
    \/ Coordinator
    \/ \E w \in DOMAIN wpc : generate_vanity_address(w)
    \/ progress_monitor
    \/ \E toGroup \in BOOLEAN : interrupt(toGroup)

ConfigSpec == Init /\ [][ConfigNext]_vars

\* successive invocations in the same working directory
RerunNext ==
    \/ Next
    \/ reinvoke

RerunSpec == Init /\ [][RerunNext]_vars

\* ---------------------------------------------------------------- matcher alone
\* the matcher applied to one vanity text, one pair of options and one address
MatcherInit ==
    /\ vanity_text \in SeqsUpTo(TextChars, MaxTextLen)
    /\ ignore_case \in BOOLEAN
    /\ match_end \in BOOLEAN
    /\ subject \in SeqsUpTo(AddrChars, MaxAddrLen)
    /\ search_result = "none"
    /\ max_matches = 0 /\ num_cores = 1
    /\ pc = "matcher" /\ found = 0 /\ results = <<>> /\ existing_data = <<>>
    /\ exit_code = -1 /\ queue = <<>> /\ progress_queue = <<>>
    /\ total_attempts = 0 /\ wpc = <<>> /\ attempts = <<>> /\ apc = "none"
    /\ consumed = 0 /\ total0 = 0 /\ batch_size = BatchSize
    /\ fs = [g \in AllFilenames |-> Missing]
    /\ sent = 0 /\ run = 0 /\ fs0 = fs
    /\ sigPhase = "none" /\ writeFailed = FALSE
    /\ persisted = FALSE /\ prev = NoPrev

\* lines 66-72 and 25: compile the pattern and search the address
matcher_search ==
    /\ pc = "matcher"
    /\ search_result = "none"
    /\ search_result' = IF Matcher(vanity_text, match_end, ignore_case, subject)
                        THEN "match" ELSE "no_match"
    /\ UNCHANGED <<inputVars, pc, found, results, existing_data, exit_code, queue,
                   progress_queue, total_attempts, consumed, wpc, attempts, apc, fs, sent,
                   histVars, sigPhase, writeFailed, persisted, subject>>

MatcherNext == matcher_search

MatcherSpec == MatcherInit /\ [][MatcherNext]_vars

\* ---------------------------------------------------------------- counter alone
\* the largest count of whole batches the 32-bit counter can hold
TopCount == (IntMax \div DefaultBatchSize) * DefaultBatchSize

\* the values the counter may stand at in a session that has been running:
\* a few batches from zero, or a few batches below the top of its range
CounterValues ==
    {i * DefaultBatchSize : i \in 0..CounterSpan}
        \cup {TopCount - i * DefaultBatchSize : i \in 0..CounterSpan}

\* a session in its receive loop, one worker running, the counter at one of
\* CounterValues and up to MaxWaiting full batches waiting for the monitor
CounterInit ==
    /\ vanity_text \in VanityTexts /\ max_matches = 1 /\ ignore_case = FALSE
    /\ match_end = FALSE /\ num_cores = 1
    /\ pc = "get" /\ found = 0 /\ results = <<>> /\ existing_data = <<>>
    /\ exit_code = -1 /\ queue = <<>>
    /\ \E n \in 1..MaxWaiting :
          /\ progress_queue = [i \in 1..n |-> Batch(DefaultBatchSize)]
          /\ sent = n
    /\ total_attempts \in CounterValues
    /\ consumed = 0 /\ total0 = total_attempts /\ batch_size = DefaultBatchSize
    /\ wpc = <<"run">> /\ attempts = <<0>> /\ apc = "run"
    /\ fs = [g \in AllFilenames |-> Missing]
    /\ run = 1 /\ fs0 = fs
    /\ sigPhase = "none" /\ writeFailed = FALSE
    /\ persisted = FALSE /\ prev = NoPrev
    /\ subject = <<>> /\ search_result = "none"

\* the monitor takes the waiting batches while the session goes on to its
\* match and through lines 99-113; the worker's iterations that draw no match
\* are left out (a batch takes DefaultBatchSize of them)
CounterNext ==
    \/ progress_monitor
    \/ \E w \in DOMAIN wpc : WorkerFinds(w)
    \/ main_get
    \/ main_terminate
    \/ main_put_done
    \/ main_join

CounterSpec == CounterInit /\ [][CounterNext]_vars

\* ---------------------------------------------------------------- properties
\* the file this run reads and writes
ResultFile == Filename(vanity_text, max_matches)

\* some keypair has an address the session's pattern matches
Matchable ==
    \E k \in Keypairs : Matcher(vanity_text, match_end, ignore_case, Pubkey(k))

\* the text occurs at the anchored end of the address, both case-folded when
\* case is ignored
Anchored(text, matchEnd, ignoreCase, s) ==
    LET t == IF ignoreCase THEN Fold(text) ELSE text
        a == IF ignoreCase THEN Fold(s) ELSE s
    IN  IF matchEnd THEN IsSuffix(t, a) ELSE IsPrefix(t, a)

\* C10: the matcher returns true exactly when the address starts with the
\* vanity text (ends with it under match_end), case-folded under ignore_case.
C10_MatchIffAnchored ==
    search_result # "none" =>
        ((search_result = "match") <=>
            Anchored(vanity_text, match_end, ignore_case, subject))

\* the same for vanity texts made of address characters only
LiteralTextMatchIffAnchored ==
    (search_result # "none" /\ \A i \in 1..Len(vanity_text) : vanity_text[i] \in AddrChars)
        => ((search_result = "match") <=>
               Anchored(vanity_text, match_end, ignore_case, subject))

\* the coordinator has left the receive loop without being interrupted
PastRunning ==
    pc \in {"terminate", "put_done", "join", "persist_read", "persist_open",
            "persist_dump", "print_total", "returned", "sysexit1"}

\* C1: with a matchable pattern and fair scheduling, a started session that is
\* not interrupted and whose file operations succeed reaches the end of main.
C1_SessionCompletes ==
    (pc = "start" /\ Matchable) ~>
        (pc = "returned" \/ pc = "sysexit1" \/ sigPhase # "none")

\* the same when there are at least as many workers as matches to collect
SessionCompletesWithEnoughWorkers ==
    (pc = "start" /\ Matchable /\ max_matches <= num_cores) ~>
        (pc = "returned" \/ pc = "sysexit1" \/ sigPhase # "none")

\* C2: results never holds more than max_matches records, found counts them,
\* and once the loop is left (max_matches >= 1) it holds exactly max_matches;
\* what is written to the file is the loaded data and those records only.
C2_ExactlyTargetCollected ==
    /\ pc \notin {"idle", "matcher"} =>
          /\ Len(results) <= max_matches
          /\ found = Len(results)
    /\ (PastRunning /\ max_matches >= 1) => Len(results) = max_matches
    /\ (persisted /\ pc # "exited") =>
          Len(fs[ResultFile].data) <= Len(fs0[ResultFile].data) + max_matches

\* a surplus match waits on the queue when the loop is left with the target met
C2_Witness ==
    /\ pc = "terminate"
    /\ max_matches >= 1
    /\ Len(results) = max_matches
    /\ queue # <<>>

\* C3: with max_matches = 0 the coordinator is never at the blocking receive
\* and never holds a record.
C3_ZeroTargetNeverReceives ==
    (pc \notin {"idle", "matcher"} /\ max_matches = 0) =>
        /\ pc # "get"
        /\ results = <<>>
        /\ found = 0

\* a run with max_matches = 0 has ended with status 0 while a match was waiting
C3_Witness ==
    /\ max_matches = 0
    /\ pc = "exited"
    /\ exit_code = 0
    /\ sigPhase = "none"
    /\ queue # <<>>

\* C4: after an interrupt delivered in RUNNING with nothing collected, the
\* coordinator is on its way out or out, it never persisted and no file differs
\* from what it was when the run started.
C4_InterruptBeforeMatchLeavesFiles ==
    (sigPhase = "RUNNING" /\ found = 0) =>
        /\ pc \in {"sysexit0", "exited"}
        /\ ~persisted
        /\ ~writeFailed
        /\ fs = fs0
        /\ exit_code \in {-1, 0}

\* the process has exited after such an interrupt and a stored array is intact
C4_Witness ==
    /\ sigPhase = "RUNNING"
    /\ found = 0
    /\ pc = "exited"
    /\ fs[ResultFile] = Array(<<Record(0)>>)

\* C5: after an interrupt delivered in RUNNING or DRAINING the coordinator
\* exits and no child process stays alive.
C5_InterruptCancelsSession ==
    (sigPhase \in {"RUNNING", "DRAINING"} /\ pc = "sysexit0") ~>
        (pc = "exited" /\ ~ChildrenAlive)

\* C6: once line 131 has completed on a file that held an array, the file
\* holds that array followed by results, in order and with nothing removed.
C6_PersistAppends ==
    (persisted /\ pc # "exited" /\ fs0[ResultFile].kind = "json_array") =>
        /\ fs[ResultFile] = Array(fs0[ResultFile].data \o results)
        /\ Len(fs[ResultFile].data) = Len(fs0[ResultFile].data) + Len(results)
        /\ \A i \in 1..Len(fs0[ResultFile].data) :
              fs[ResultFile].data[i] = fs0[ResultFile].data[i]

\* a record already stored was collected again and is stored twice
C6_Witness ==
    /\ persisted
    /\ pc = "print_total"
    /\ fs0[ResultFile].kind = "json_array"
    /\ fs0[ResultFile].data # <<>>
    /\ results # <<>>
    /\ \E i \in 1..Len(results) : results[i] = fs0[ResultFile].data[1]

\* what the previous run left in its file
PrevStored == fs0[<<prev.text, prev.plural>>]

\* C7 as claimed: a completed run after a completed run with the same vanity
\* text leaves the previous run's records, followed by its own, in its file.
C7_KeyedByTextAlone ==
    (persisted /\ pc # "exited" /\ prev.completed /\ prev.text = vanity_text) =>
        fs[ResultFile] = Array(PrevStored.data \o results)

\* C7 amended: the same for runs with the same vanity text and the same
\* plural suffix (max_matches > 1 in both or in neither).
C7_KeyedByTextAndPlural ==
    (/\ persisted /\ pc # "exited" /\ prev.completed
     /\ prev.text = vanity_text
     /\ prev.plural = Pluralized(max_matches)) =>
        fs[ResultFile] = Array(PrevStored.data \o results)

\* a second run has appended its matches to what the first run stored
C7_Witness ==
    /\ persisted
    /\ pc = "print_total"
    /\ prev.completed
    /\ prev.text = vanity_text
    /\ prev.plural = Pluralized(max_matches)
    /\ PrevStored.data # <<>>
    /\ results # <<>>

\* C8: when the file was missing or did not hold an array and no write
\* failed, the run does not take the error exit and a completed write leaves
\* exactly results in the file.
C8_CorruptTreatedAsEmpty ==
    (/\ pc \notin {"idle", "matcher"}
     /\ fs0[ResultFile].kind # "json_array"
     /\ ~writeFailed) =>
        /\ pc # "sysexit1"
        /\ exit_code # 1
        /\ (persisted /\ pc # "exited") => fs[ResultFile] = Array(results)

\* the same for a file that is missing or is not JSON at all
UnparseableTreatedAsEmpty ==
    (/\ pc \notin {"idle", "matcher"}
     /\ fs0[ResultFile].kind \in {"missing", "garbage"}
     /\ ~writeFailed) =>
        /\ pc # "sysexit1"
        /\ exit_code # 1
        /\ (persisted /\ pc # "exited") => fs[ResultFile] = Array(results)

\* C9: the exit status is non-zero exactly when writing the file failed; a
\* failed write never reaches line 136; every interrupted run exits with 0.
C9_NonZeroIffWriteFails ==
    /\ pc = "exited" => ((exit_code # 0) <=> writeFailed)
    /\ writeFailed => pc \in {"sysexit1", "exited"}
    /\ (pc = "exited" /\ sigPhase # "none") => exit_code = 0

\* C11: a run whose vanity text is empty or does not compile never starts a
\* monitor or a worker, never reaches the receive loop and never has a record
\* on the result queue.
C11_BadPatternRejected ==
    (/\ pc \notin {"idle", "matcher"}
     /\ (vanity_text = <<>> \/ CompileFails(Pattern(vanity_text, match_end)))) =>
        /\ Phase(pc) \in {"INIT", "EXIT"}
        /\ apc = "none"
        /\ wpc = <<>>
        /\ queue = <<>>
        /\ results = <<>>

\* the same for the texts that do not compile
MalformedPatternRejected ==
    (/\ pc \notin {"idle", "matcher"}
     /\ CompileFails(Pattern(vanity_text, match_end))) =>
        /\ Phase(pc) \in {"INIT", "EXIT"}
        /\ apc = "none"
        /\ wpc = <<>>
        /\ queue = <<>>
        /\ results = <<>>
        /\ exit_code \in {-1, 1}

\* C12: the monitor never divides by zero when it computes the rate, whatever
\* the elapsed time of an update: it never ends in ZeroDivisionError.
C12_NeverDividesByZero == apc # "crashed"

\* C13: the counter never decreases, however many batches have been counted.
C13_CounterNeverDecreases == [][total_attempts' >= total_attempts]_vars

\* C14: the counter holds what it held at the start plus the counts of the
\* batches the monitor has taken since, and the coordinator is at line 136,
\* where it reads the counter, only when the monitor no longer runs.
C14_TotalIsSumOfConsumed ==
    /\ total_attempts >= total0
    /\ total_attempts - total0 = consumed
    /\ pc = "print_total" => apc # "run"

\* the counter changes only in a step of the running monitor that takes a
\* batch off the progress queue
OnlyMonitorWrites ==
    [][total_attempts' # total_attempts =>
          /\ apc = "run"
          /\ progress_queue # <<>>
          /\ Head(progress_queue).kind = "batch"
          /\ progress_queue' = Tail(progress_queue)
          /\ UNCHANGED <<pc, wpc, attempts, queue>>]_vars

\* the coordinator is past line 113 in a run no signal has interrupted
JoinReturned ==
    /\ pc \in {"persist_read", "persist_open", "persist_dump", "print_total",
               "returned"}
    /\ sigPhase = "none"

\* C15: once the wait of line 113 has returned, every batch the workers put
\* before the sentinel has been added to the counter: none is left on the
\* progress queue and the counter holds all the batches sent.
C15_BatchesBeforeDoneCounted ==
    JoinReturned =>
        /\ \A i \in 1..Len(progress_queue) : progress_queue[i].kind # "batch"
        /\ consumed = sent * batch_size

\* the same when the monitor has not died of the division of line 47
BatchesBeforeDoneCountedUnlessCrashed ==
    (JoinReturned /\ apc # "crashed") =>
        /\ apc = "exited"
        /\ progress_queue = <<>>
        /\ consumed = sent * batch_size

\* once the sentinel is on the queue the monitor ends
DoneEndsMonitor == (pc = "join") ~> (apc # "run")

\* nothing is put on the progress queue after the sentinel
NothingAfterDone ==
    \A i \in 1..Len(progress_queue) :
        progress_queue[i].kind = "DONE" => i = Len(progress_queue)

\* the records this run has emitted: received, still queued, and written
\* to the file after what the file held before
Emitted ==
    LET old == LoadExisting(fs0[ResultFile]).data
        now == fs[ResultFile].data
    IN  {results[i] : i \in 1..Len(results)}
            \cup {queue[i] : i \in 1..Len(queue)}
            \cup (IF persisted
                   THEN {now[i] : i \in (Len(old) + 1)..Len(now)}
                   ELSE {})

\* C16: every record this run has put on the result queue, holds in results or
\* has written to the file has an address that starts with the vanity text
\* (ends with it under match_end), case-folded under ignore_case; the records
\* written are the records received, unaltered and in order.
C16_EmittedRecordsAnchored ==
    pc \notin {"idle", "matcher"} =>
        /\ \A r \in Emitted :
              Anchored(vanity_text, match_end, ignore_case, r.public_key)
        /\ persisted =>
              fs[ResultFile].data = LoadExisting(fs0[ResultFile]).data \o results

\* the same with the search of the compiled pattern as the test
EmittedRecordsPassSearch ==
    pc \notin {"idle", "matcher"} =>
        /\ \A r \in Emitted :
              /\ r \in {Record(k) : k \in Keypairs}
              /\ Matcher(vanity_text, match_end, ignore_case, r.public_key)
        /\ persisted =>
              fs[ResultFile].data = LoadExisting(fs0[ResultFile]).data \o results

\* within a run a record put on the result queue stays, in its place, on the
\* queue or in results
EmittedRecordsKept ==
    [][pc # "idle" => IsPrefix(results \o queue, results' \o queue')]_vars

\* the state that follows each state of the session state machine
NextPhase(ph) ==
    CASE ph = "INIT" -> "RUNNING"
      [] ph = "RUNNING" -> "DRAINING"
      [] ph = "DRAINING" -> "PERSISTING"
      [] ph = "PERSISTING" -> "DONE"
      [] OTHER -> "EXIT"

\* C17: in a run no signal has interrupted, every step leaves the coordinator
\* in its state or takes it to the next one of INIT, RUNNING, DRAINING,
\* PERSISTING, DONE, the process ending only from DONE or, with status 1, from
\* a failed PERSISTING; no worker runs once the coordinator is at line 112 or
\* the sentinel is queued; the coordinator is in PERSISTING, and the files
\* change, only when the monitor no longer runs.
C17_PhasesInOrder ==
    [][sigPhase' = "none" =>
          /\ Phase(pc') \in {Phase(pc), NextPhase(Phase(pc)), "EXIT"}
          /\ (Phase(pc') = "EXIT" /\ Phase(pc) # "EXIT") =>
                \/ Phase(pc) = "DONE"
                \/ Phase(pc) = "PERSISTING" /\ pc' = "sysexit1"
          /\ (pc' \in {"put_done", "join"} \/ Phase(pc') \in {"PERSISTING", "DONE"}) =>
                \A w \in DOMAIN wpc' : wpc'[w] # "run"
          /\ (\E i \in 1..Len(progress_queue') : progress_queue'[i].kind = "DONE") =>
                \A w \in DOMAIN wpc' : wpc'[w] # "run"
          /\ Phase(pc') \in {"PERSISTING", "DONE"} => apc' # "run"
          /\ fs' # fs => (Phase(pc) = "PERSISTING" /\ apc # "run")]_vars

\* a run that went through every state: workers stopped, sentinel consumed,
\* file written, main returned
C17_Witness ==
    /\ pc = "returned"
    /\ sigPhase = "none"
    /\ apc = "exited"
    /\ persisted
    /\ results # <<>>
    /\ consumed > 0
    /\ \E w \in DOMAIN wpc : wpc[w] = "terminated"

\* C18: the records emitted are as many as the workers that returned, so no
\* worker emits twice; a worker that returned or was terminated never moves or
\* sends again; a worker returns only in the step that puts its matching
\* record, sending no batch with it; a running worker ends otherwise only by
\* the terminate of line 111 or by a signal; only running workers send.
C18_WorkerEmitsOnceThenEnds ==
    [][/\ Len(queue') + Len(results')
            = Cardinality({w \in DOMAIN wpc' : wpc'[w] = "returned"})
       /\ \A w \in DOMAIN wpc :
             /\ wpc[w] # "run" => (wpc'[w] = wpc[w] /\ attempts'[w] = attempts[w])
             /\ (wpc[w] = "run" /\ wpc'[w] = "returned") =>
                   /\ Len(queue') = Len(queue) + 1
                   /\ SubSeq(queue', 1, Len(queue)) = queue
                   /\ Matcher(vanity_text, match_end, ignore_case,
                              queue'[Len(queue')].public_key)
                   /\ UNCHANGED <<progress_queue, sent>>
             /\ (wpc[w] = "run" /\ wpc'[w] = "terminated") =>
                   \/ pc = "terminate"
                   \/ sigPhase = "none" /\ sigPhase' # "none"
       /\ Len(queue') > Len(queue) =>
             \E w \in DOMAIN wpc : wpc[w] = "run" /\ wpc'[w] = "returned"
       /\ sent' > sent =>
             \E w \in DOMAIN wpc :
                 wpc[w] = "run" /\ wpc'[w] = "run" /\ attempts[w] + 1 = batch_size]_vars

\* one worker has returned with its record, the other has sent a batch and
\* still runs
C18_Witness ==
    /\ DOMAIN wpc = 1..2
    /\ \E w \in 1..2 : wpc[w] = "returned" /\ wpc[3 - w] = "run"
    /\ Len(queue) + Len(results) = 1
    /\ sent > 0

\* C19: every batch on the progress queue carries exactly batch_size, no
\* worker holds a full batch unreported, the counts consumed never exceed the
\* batches sent, and the counter is a multiple of batch_size.
C19_OnlyFullBatchesCounted ==
    /\ \A i \in 1..Len(progress_queue) :
          progress_queue[i].kind = "batch" => progress_queue[i].n = batch_size
    /\ \A w \in DOMAIN attempts : attempts[w] < batch_size
    /\ consumed <= sent * batch_size
    /\ total_attempts % batch_size = 0

\* a batch is put only by a running worker that completes a full batch with
\* no match, and a worker that returns or is terminated puts none
BatchOnlyAfterFullBatch ==
    [][/\ sent' > sent =>
             /\ progress_queue' = Append(progress_queue, Batch(batch_size))
             /\ queue' = queue
             /\ \E w \in DOMAIN wpc :
                   /\ wpc[w] = "run" /\ wpc'[w] = "run"
                   /\ attempts[w] = batch_size - 1 /\ attempts'[w] = 0
       /\ (\E w \in DOMAIN wpc : wpc[w] = "run" /\ wpc'[w] # "run") =>
             UNCHANGED <<progress_queue, sent, total_attempts>>]_vars

\* C20: when a run that a signal interrupted has ended, the result file that
\* held an array of records before the run still holds an array that starts
\* with those records.
C20_InterruptKeepsStoredRecords ==
    (/\ pc \in {"sysexit0", "exited"}
     /\ sigPhase # "none"
     /\ fs0[ResultFile].kind = "json_array") =>
        /\ fs[ResultFile].kind = "json_array"
        /\ IsPrefix(fs0[ResultFile].data, fs[ResultFile].data)

\* the same for an interrupt in any state but PERSISTING
InterruptOutsidePersistingKeepsFile ==
    (/\ pc \in {"sysexit0", "exited"}
     /\ sigPhase \notin {"none", "PERSISTING"}
     /\ fs0[ResultFile].kind = "json_array") =>
        /\ fs[ResultFile].kind = "json_array"
        /\ IsPrefix(fs0[ResultFile].data, fs[ResultFile].data)

====
